---- MODULE Spec2Model ----
(***************************************************************************)
(* Model of src/fetch_data.py: the per-commodity ingestion script.         *)
(*                                                                         *)
(* Strings are sequences of code points, so that str.lower, str.replace    *)
(* and Python's string ordering are computed rather than assumed.          *)
(* Dates are <<day, month, year>> triples as written in the "%d-%m-%Y"     *)
(* text; a triple that is no calendar date is an unparseable text.         *)
(***************************************************************************)
EXTENDS Integers, Sequences, FiniteSets, TLC

\* ------------------------------------------------------------ configuration
LIMIT == 1000
MAX_RETRIES == 5
BACKOFF_BASE == 2
WINDOW_YEARS == 3
ROLLING == 7

\* bounds of the model (not program constants)
MaxPages == 1
MaxRuns == 2

\* ------------------------------------------------------------------ strings
\* "G P", "W", "w": two of them share a file stem
GP == <<71, 32, 80>>
Wu == <<87>>
Wl == <<119>>
Crops == {GP, Wu, Wl}
NoText == <<>>
\* None: what r.get("Commodity") gives for a null or an absent Commodity
Null == <<0>>
\* the values the test `if r.get("Commodity")` rejects
Falsy(v) == v = Null \/ v = NoText
M1 == <<77, 49>>
M2 == <<77, 50>>

Lower(ch) == IF ch >= 65 /\ ch =< 90 THEN ch + 32 ELSE ch
ReplaceSpace(ch) == IF ch = 32 THEN 95 ELSE ch

\* fname = crop.replace(" ", "_").lower()
Stem(crop) == [i \in 1..Len(crop) |-> Lower(ReplaceSpace(crop[i]))]

Stems == {Stem(c) : c \in Crops}

\* Python's str ordering: lexicographic on code points
RECURSIVE StrLess(_, _)
StrLess(a, b) ==
    IF b = <<>> THEN FALSE
    ELSE IF a = <<>> THEN TRUE
    ELSE IF Head(a) # Head(b) THEN Head(a) < Head(b)
    ELSE StrLess(Tail(a), Tail(b))

StrMin(S) == CHOOSE x \in S : \A y \in S : x = y \/ StrLess(x, y)

\* sorted(set)
RECURSIVE Sorted(_)
Sorted(S) ==
    IF S = {} THEN <<>>
    ELSE LET m == StrMin(S) IN <<m>> \o Sorted(S \ {m})

Range(s) == {s[i] : i \in 1..Len(s)}

\* -------------------------------------------------------------------- dates
IsLeap(y) == (y % 4 = 0 /\ y % 100 # 0) \/ y % 400 = 0

DaysIn(m, y) ==
    IF m = 2 THEN (IF IsLeap(y) THEN 29 ELSE 28)
    ELSE IF m \in {4, 6, 9, 11} THEN 30 ELSE 31

\* pd.to_datetime(..., format="%d-%m-%Y", errors="coerce") yields a date or NaT
ValidDate(t) ==
    /\ t[3] >= 1
    /\ t[2] \in 1..12
    /\ t[1] >= 1
    /\ t[1] =< DaysIn(t[2], t[3])

DateLess(a, b) ==
    \/ a[3] < b[3]
    \/ a[3] = b[3] /\ a[2] < b[2]
    \/ a[3] = b[3] /\ a[2] = b[2] /\ a[1] < b[1]

\* ts - pd.DateOffset(years=n): same month, day clipped to the month's end
MinusYears(t, n) ==
    LET y == t[3] - n
        d == IF t[1] > DaysIn(t[2], y) THEN DaysIn(t[2], y) ELSE t[1]
    IN <<d, t[2], y>>

\* ------------------------------------------------------------------ records
\* A Record of the remote source. Modal_Price is the text of a number
\* (num = TRUE, its value val) or some other text (num = FALSE).
Num(v) == [num |-> TRUE, val |-> v]
NotNum == [num |-> FALSE, val |-> 0]

Rec(c, d, p, m) ==
    [Commodity |-> c, Arrival_Date |-> d, Modal_Price |-> p, Market |-> m]

\* ------------------------------------------------ process_crop: the pipeline
\* to_datetime / to_numeric with errors="coerce", then dropna on both columns
DropUnparsed(rows) ==
    SelectSeq(rows, LAMBDA r : ValidDate(r.Arrival_Date) /\ r.Modal_Price.num)

\* (a cleaning without the price filter)
AnyPrice(rows) == rows

\* df = df[df["Modal_Price"] > 0]
PositivePrice(rows) == SelectSeq(rows, LAMBDA r : r.Modal_Price.val > 0)

Cleaned(rows) == PositivePrice(DropUnparsed(rows))

MaxDate(rows) ==
    CHOOSE d \in {rows[i].Arrival_Date : i \in 1..Len(rows)} :
        \A j \in 1..Len(rows) : ~DateLess(d, rows[j].Arrival_Date)

\* cutoff = max(Arrival_Date) - 3 years; keep Arrival_Date >= cutoff
Cutoff(rows) == MinusYears(MaxDate(rows), WINDOW_YEARS)

Windowed(rows) ==
    IF rows = <<>> THEN <<>>
    ELSE SelectSeq(rows, LAMBDA r : ~DateLess(r.Arrival_Date, Cutoff(rows)))

\* df.sort_values(["Market", "Arrival_Date"]) (ties keep their order)
RowLess(a, b) ==
    \/ StrLess(a.Market, b.Market)
    \/ a.Market = b.Market /\ DateLess(a.Arrival_Date, b.Arrival_Date)

RECURSIVE InsertRow(_, _)
InsertRow(r, s) ==
    IF s = <<>> \/ ~RowLess(Head(s), r) THEN <<r>> \o s
    ELSE <<Head(s)>> \o InsertRow(r, Tail(s))

RECURSIVE SortRows(_)
SortRows(s) == IF s = <<>> THEN <<>> ELSE InsertRow(Head(s), SortRows(Tail(s)))

\* position of row i within its Market group of the sorted frame
GroupPos(s, i) == Cardinality({j \in 1..i : s[j].Market = s[i].Market})

RECURSIVE SumPrices(_, _, _)
SumPrices(s, lo, hi) ==
    IF lo > hi THEN 0 ELSE s[lo].Modal_Price.val + SumPrices(s, lo + 1, hi)

\* price_lag_1, rolling_mean_7, then dropna(): a row survives when its group
\* holds ROLLING rows up to it; market_id is the LabelEncoder index of Market
\* among the sorted distinct markets of the surviving rows
Featured(s) ==
    LET keep == {i \in 1..Len(s) : GroupPos(s, i) >= ROLLING}
        markets == Sorted({s[i].Market : i \in keep})
        Id(m) == (CHOOSE k \in 1..Len(markets) : markets[k] = m) - 1
        Out(i) ==
            [Commodity |-> s[i].Commodity,
             Arrival_Date |-> s[i].Arrival_Date,
             Modal_Price |-> s[i].Modal_Price.val,
             Market |-> s[i].Market,
             price_lag_1 |-> s[i - 1].Modal_Price.val,
             rolling_mean_7 |->
                 [sum |-> SumPrices(s, i - ROLLING + 1, i), over |-> ROLLING],
             market_id |-> Id(s[i].Market)]
        RECURSIVE Build(_)
        Build(i) ==
            IF i > Len(s) THEN <<>>
            ELSE (IF i \in keep THEN <<Out(i)>> ELSE <<>>) \o Build(i + 1)
    IN Build(1)

\* the frame process_crop writes; <<>> when it returns False instead
Frame(rows) == Featured(SortRows(Windowed(Cleaned(rows))))

\* ----------------------------------------------------- what the remote holds
\* a page with seven usable rows of one market, one row older than the
\* window, one non-positive price and one date that is no date
GoodPage(c) ==
    [i \in 1..7 |-> Rec(c, <<i, 1, 2024>>, Num(2000 + i), M1)]
    \o <<Rec(c, <<1, 1, 2020>>, Num(1500), M1),
         Rec(c, <<2, 1, 2024>>, Num(-5), M1),
         Rec(c, <<31, 2, 2024>>, Num(1800), M1)>>

\* too little history for the rolling mean
ShortPage(c) ==
    <<Rec(c, <<5, 3, 2024>>, Num(900), M2),
      Rec(c, <<29, 2, 2024>>, Num(950), M2)>>

\* nothing survives the cleaning
BadPage(c) ==
    <<Rec(c, <<1, 1, 2024>>, Num(-5), M1),
      Rec(c, <<1, 1, 2024>>, NotNum, M1),
      Rec(c, <<0, 0, 0>>, Num(700), M2)>>

PagesOf(c) == {GoodPage(c), ShortPage(c), BadPage(c)}

\* unfiltered first pages: records of several commodities, some without one
FirstPages ==
    {<<Rec(Wl, <<1, 1, 2024>>, Num(2000), M1),
       Rec(GP, <<1, 1, 2024>>, Num(300), M1),
       Rec(NoText, <<1, 1, 2024>>, Num(10), M2),
       Rec(Null, <<1, 1, 2024>>, Num(11), M2),
       Rec(Wu, <<2, 1, 2024>>, Num(2100), M1),
       Rec(Wl, <<3, 1, 2024>>, Num(2050), M2)>>,
     <<Rec(Wu, <<1, 1, 2024>>, Num(2000), M1),
       Rec(GP, <<1, 1, 2024>>, Num(300), M1)>>,
     <<>>}

\* ----------------------------------------------------------------- the state
VARIABLES
    pc,            \* position of the script
    run,           \* number of the current process
    apiKey,        \* whether DATA_GOV_API_KEY is set in the process environment
    dirExists,     \* DATA_DIR on disk
    progressFile,  \* PROGRESS_FILE on disk
    files,         \* the <stem>_ml.csv files on disk
    remote,        \* how the remote source answers
    call,          \* the current fetch_page call
    commodities,   \* the sorted list of discovered commodities
    progress,      \* progress["completed_crops"] in memory
    completed,     \* the set built from the loaded progress
    idx,           \* position of the main loop in commodities
    rows,          \* rows accumulated by process_crop
    offset,        \* offset of process_crop's walk
    raised,        \* the exception that ended the process, if any
    invoked,       \* history: crops process_crop was called for in this run
    saves,         \* history: crops after which save_progress ran in this run
    entity,        \* history: last terminal state of each crop
    lastSaved      \* history: the list the last completed save_progress wrote

vars ==
    <<pc, run, apiKey, dirExists, progressFile, files, remote, call,
      commodities, progress, completed, idx, rows, offset, raised, invoked,
      saves, entity, lastSaved>>

disk == <<dirExists, progressFile, files>>
memory == <<commodities, progress, completed, idx, rows, offset>>
history == <<invoked, saves, entity, lastSaved>>
setup == <<run, apiKey, remote>>

\* ------------------------------------------------------------ progress file
FileOf(kind, crops) == [kind |-> kind, crops |-> crops]

NoFile == [exists |-> FALSE, rows |-> <<>>]

\* the value load_progress returns: the default, or whatever the file parses to.
\* keyed tells whether that value can be indexed by "completed_crops".
DefaultProgress == [keyed |-> TRUE, completed_crops |-> <<>>]

load_progress(f) ==
    IF f.kind = "missing" THEN DefaultProgress
    ELSE IF f.kind = "empty" THEN DefaultProgress
    ELSE IF f.kind = "invalid" THEN DefaultProgress
    ELSE IF f.kind = "other" THEN [keyed |-> FALSE, completed_crops |-> <<>>]
    ELSE [keyed |-> TRUE, completed_crops |-> f.crops]

\* save_progress: open(PROGRESS_FILE, "w") leaves the file empty ...
Truncated == FileOf("empty", <<>>)
\* ... and json.dump followed by the close puts the list there
Dumped(list) == FileOf("json", list)

\* (a to_csv in append mode, as the sink of the offset-stream scripts has it)
AppendCsv(fs, crop, frame) ==
    [fs EXCEPT ![Stem(crop)] = [exists |-> TRUE, rows |-> @.rows \o frame]]

\* to_csv writes the whole frame to the crop's file, replacing what was there
WriteCsv(fs, crop, frame) ==
    [fs EXCEPT ![Stem(crop)] = [exists |-> TRUE, rows |-> frame]]

\* --------------------------------------------------------------- fetch_page
FailureKinds == {"timeout", "http_error", "not_json"}
Kinds == FailureKinds \cup {"not_object", "no_records", "ok"}

Answer(kind, records) == [kind |-> kind, records |-> records]

NoFilter == NoText

\* the pages the remote may hold for a request
Data(filter, off) ==
    IF filter = NoFilter THEN FirstPages
    ELSE IF off < MaxPages * LIMIT THEN PagesOf(filter) \cup {<<>>}
    ELSE {<<>>}

\* a remote that answers a request the same way every time: disc for the
\* unfiltered first page, pages[c] for the filtered pages of c in offset
\* order, an empty page after them
Fixed(filter, off) ==
    IF filter = NoFilter THEN remote.disc
    ELSE IF off \div LIMIT < Len(remote.pages[filter])
         THEN remote.pages[filter][off \div LIMIT + 1]
         ELSE Answer("ok", <<>>)

Answers(filter, off) ==
    IF remote.det THEN {Fixed(filter, off)}
    ELSE {Answer(k, <<>>) : k \in Kinds \ {"ok"}}
         \cup {Answer("ok", r) : r \in Data(filter, off)}

\* (a wait that grows by BACKOFF_BASE with each attempt)
Times(b, n) == b * n

RECURSIVE Pow(_, _)
Pow(b, n) == IF n = 0 THEN 1 ELSE b * Pow(b, n - 1)

NewCall(off, filter) ==
    [offset |-> off, filter |-> filter, attempt |-> 0, endedBy |-> "none",
     sleeps |-> <<>>, status |-> "active", result |-> <<>>]

NoCall == [NewCall(0, NoFilter) EXCEPT !.status = "idle"]

\* except (Timeout, RequestException, ValueError)
Caught(o) == o.kind \in FailureKinds

\* data.get on a JSON value that is no object: AttributeError, not caught
Uncaught(o) == o.kind = "not_object"

\* records = data.get("records", [])
RecordsOf(o) == IF o.kind = "ok" THEN o.records ELSE <<>>

\* one iteration of the retry loop, answered by o
AfterAttempt(c, o) ==
    LET n == c.attempt + 1 IN
    IF Caught(o) THEN
        [c EXCEPT !.attempt = n,
                  !.sleeps = Append(@, Pow(BACKOFF_BASE, n)),
                  !.status = IF n = MAX_RETRIES THEN "returned" ELSE "active",
                  !.endedBy = IF n = MAX_RETRIES THEN o.kind ELSE "none"]
    ELSE IF Uncaught(o) THEN
        [c EXCEPT !.attempt = n, !.endedBy = o.kind, !.status = "raised"]
    ELSE
        [c EXCEPT !.attempt = n, !.endedBy = o.kind, !.status = "returned",
                  !.result = RecordsOf(o)]

InFetch == pc \in {"discover", "walk"} /\ call.status = "active"

\* ------------------------------------------------------------------ actions
\* lines 10-23 and the call of line 100: read the credential, make DATA_DIR,
\* enter fetch_page(0)
Boot ==
    /\ pc = "boot"
    /\ pc' = "discover"
    /\ dirExists' = TRUE
    /\ call' = NewCall(0, NoFilter)
    /\ UNCHANGED <<progressFile, files, memory, raised, setup,
                   invoked, saves, entity, lastSaved>>

\* lines 69-94: one request of the current call and what follows it, up to
\* the return or the exception
FetchAttempt ==
    /\ InFetch
    /\ \E o \in Answers(call.filter, call.offset) :
        LET c == AfterAttempt(call, o) IN
        /\ call' = c
        /\ pc' = IF c.status = "raised" THEN "aborted" ELSE pc
        /\ raised' = IF c.status = "raised" THEN "AttributeError" ELSE raised
    /\ UNCHANGED <<disk, memory, setup, invoked, saves, entity, lastSaved>>

\* (a discovery without the test of the value)
EveryValue(page) == Sorted({page[i].Commodity : i \in 1..Len(page)})

\* lines 102-103
Discovered(page) ==
    Sorted({v \in {page[i].Commodity : i \in 1..Len(page)} : ~Falsy(v)})

Discover ==
    /\ pc = "discover"
    /\ call.status = "returned"
    /\ commodities' = Discovered(call.result)
    /\ pc' = "load"
    /\ call' = NoCall
    /\ UNCHANGED <<disk, progress, completed, idx, rows, offset, raised,
                   setup, history>>

\* lines 108-109
LoadProgress ==
    /\ pc = "load"
    /\ LET p == load_progress(progressFile) IN
        IF p.keyed
        THEN /\ progress' = p.completed_crops
             /\ completed' = Range(p.completed_crops)
             /\ idx' = 1
             /\ pc' = "loop"
             /\ UNCHANGED raised
        ELSE /\ pc' = "aborted"
             /\ raised' = "KeyError"
             /\ UNCHANGED <<progress, completed, idx>>
    /\ UNCHANGED <<disk, call, commodities, rows, offset, setup, history>>

\* lines 186-189
Skips(crop) == crop \in completed

LoopSkip ==
    /\ pc = "loop"
    /\ idx =< Len(commodities)
    /\ Skips(commodities[idx])
    /\ idx' = idx + 1
    /\ UNCHANGED <<pc, disk, call, commodities, progress, completed, rows,
                   offset, raised, setup, history>>

\* lines 191 and 116-121: enter process_crop and its first fetch_page
LoopInvoke ==
    /\ pc = "loop"
    /\ idx =< Len(commodities)
    /\ ~Skips(commodities[idx])
    /\ pc' = "walk"
    /\ rows' = <<>>
    /\ offset' = 0
    /\ call' = NewCall(0, commodities[idx])
    /\ invoked' = Append(invoked, commodities[idx])
    /\ UNCHANGED <<disk, commodities, progress, completed, idx, raised, setup,
                   saves, entity, lastSaved>>

\* lines 122-127, records not empty: keep them and ask for the next page
WalkPage ==
    /\ pc = "walk"
    /\ call.status = "returned"
    /\ call.result # <<>>
    /\ rows' = rows \o call.result
    /\ offset' = offset + LIMIT
    /\ call' = NewCall(offset + LIMIT, commodities[idx])
    /\ UNCHANGED <<pc, disk, commodities, progress, completed, idx, raised,
                   setup, history>>

\* (a walk that takes a fetch that used up its retries for a failure of the
\* crop instead of the end of its data)
WalkBreakOnData ==
    \/ /\ pc = "walk"
       /\ call.status = "returned"
       /\ call.result = <<>>
       /\ call.endedBy \notin FailureKinds
       /\ pc' = "process"
       /\ call' = NoCall
       /\ UNCHANGED <<disk, memory, raised, setup, history>>
    \/ /\ pc = "walk"
       /\ call.status = "returned"
       /\ call.endedBy \in FailureKinds
       /\ entity' = [entity EXCEPT ![commodities[idx]] = "FAILED"]
       /\ idx' = idx + 1
       /\ rows' = <<>>
       /\ offset' = 0
       /\ pc' = "loop"
       /\ call' = NoCall
       /\ UNCHANGED <<disk, commodities, progress, completed, raised,
                      setup, invoked, saves, lastSaved>>

\* lines 122-123, records empty: leave the walk
WalkBreak ==
    /\ pc = "walk"
    /\ call.status = "returned"
    /\ call.result = <<>>
    /\ pc' = "process"
    /\ call' = NoCall
    /\ UNCHANGED <<disk, memory, raised, setup, history>>

\* (a process_crop that writes its frame before it looks whether it is empty)
ProcessFailAfterWrite ==
    /\ pc = "process"
    /\ Frame(rows) = <<>>
    /\ files' = WriteCsv(files, commodities[idx], <<>>)
    /\ entity' = [entity EXCEPT ![commodities[idx]] = "FAILED"]
    /\ idx' = idx + 1
    /\ rows' = <<>>
    /\ offset' = 0
    /\ pc' = "loop"
    /\ UNCHANGED <<dirExists, progressFile, call, commodities, progress,
                   completed, raised, setup, invoked, saves, lastSaved>>

\* lines 129-170 returning False, then lines 197-200
ProcessFail ==
    /\ pc = "process"
    /\ Frame(rows) = <<>>
    /\ entity' = [entity EXCEPT ![commodities[idx]] = "FAILED"]
    /\ idx' = idx + 1
    /\ rows' = <<>>
    /\ offset' = 0
    /\ pc' = "loop"
    /\ UNCHANGED <<disk, call, commodities, progress, completed, raised,
                   setup, invoked, saves, lastSaved>>

\* (a process_crop that returns True without the to_csv)
ProcessNoWrite ==
    /\ pc = "process"
    /\ Frame(rows) # <<>>
    /\ entity' = [entity EXCEPT ![commodities[idx]] = "SUCCEEDED"]
    /\ rows' = <<>>
    /\ offset' = 0
    /\ pc' = "save_open"
    /\ UNCHANGED <<disk, call, commodities, progress,
                   completed, idx, raised, setup, invoked, saves, lastSaved>>

\* lines 133-181 returning True: the file is written
ProcessWrite ==
    /\ pc = "process"
    /\ Frame(rows) # <<>>
    /\ files' = WriteCsv(files, commodities[idx], Frame(rows))
    /\ entity' = [entity EXCEPT ![commodities[idx]] = "SUCCEEDED"]
    /\ rows' = <<>>
    /\ offset' = 0
    /\ pc' = "save_open"
    /\ UNCHANGED <<dirExists, progressFile, call, commodities, progress,
                   completed, idx, raised, setup, invoked, saves, lastSaved>>

\* lines 194 and 44: append the crop, open the progress file for writing
SaveOpen ==
    /\ pc = "save_open"
    /\ progress' = Append(progress, commodities[idx])
    /\ progressFile' = Truncated
    /\ pc' = "save_dump"
    /\ UNCHANGED <<dirExists, files, call, commodities, completed, idx, rows,
                   offset, raised, setup, history>>

\* lines 45 and 196-200: the list reaches the file, the loop moves on
SaveDump ==
    /\ pc = "save_dump"
    /\ progressFile' = Dumped(progress)
    /\ lastSaved' = progress
    /\ saves' = Append(saves, commodities[idx])
    /\ idx' = idx + 1
    /\ pc' = "loop"
    /\ UNCHANGED <<dirExists, files, call, commodities, progress, completed,
                   rows, offset, raised, setup, invoked, entity>>

\* line 202: the loop is over
LoopEnd ==
    /\ pc = "loop"
    /\ idx > Len(commodities)
    /\ pc' = "finished"
    /\ UNCHANGED <<disk, call, memory, raised, setup, history>>

\* the process is terminated from outside
Running ==
    {"discover", "load", "loop", "walk", "process", "save_open", "save_dump"}

KillAt(where) ==
    /\ pc \in where
    /\ pc' = "killed"
    /\ call' = NoCall
    /\ commodities' = <<>>
    /\ progress' = <<>>
    /\ completed' = {}
    /\ idx' = 0
    /\ rows' = <<>>
    /\ offset' = 0
    /\ UNCHANGED <<disk, raised, setup, history>>

Kill == KillAt(Running)

\* the script is started again on the same disk
Rerun ==
    /\ pc \in {"finished", "aborted", "killed"}
    /\ run < MaxRuns
    /\ run' = run + 1
    /\ pc' = "boot"
    /\ apiKey' \in BOOLEAN
    /\ call' = NoCall
    /\ commodities' = <<>>
    /\ progress' = <<>>
    /\ completed' = {}
    /\ idx' = 0
    /\ rows' = <<>>
    /\ offset' = 0
    /\ raised' = "none"
    /\ invoked' = <<>>
    /\ saves' = <<>>
    /\ UNCHANGED <<disk, remote, entity, lastSaved>>

\* ------------------------------------------------------------ specifications
\* what may be on disk before the first run
FirstProgressFiles ==
    {FileOf("missing", <<>>), FileOf("empty", <<>>), FileOf("invalid", <<>>),
     FileOf("other", <<>>), FileOf("json", <<Wu>>)}

AnyRemote == [det |-> FALSE, disc |-> Answer("ok", <<>>),
              pages |-> [c \in Crops |-> <<>>]]

InitWith(firstFiles, remotes) ==
    /\ pc = "boot"
    /\ run = 1
    /\ apiKey \in BOOLEAN
    /\ progressFile \in firstFiles
    /\ dirExists \in (IF progressFile.kind = "missing" THEN BOOLEAN ELSE {TRUE})
    /\ files = [s \in Stems |-> NoFile]
    /\ remote \in remotes
    /\ call = NoCall
    /\ commodities = <<>>
    /\ progress = <<>>
    /\ completed = {}
    /\ idx = 0
    /\ rows = <<>>
    /\ offset = 0
    /\ raised = "none"
    /\ invoked = <<>>
    /\ saves = <<>>
    /\ entity = [c \in Crops |-> "PENDING"]
    /\ lastSaved = <<>>

Init == InitWith(FirstProgressFiles, {AnyRemote})

Steps ==
    \/ Boot
    \/ FetchAttempt
    \/ Discover
    \/ LoadProgress
    \/ LoopSkip
    \/ LoopInvoke
    \/ WalkPage
    \/ WalkBreak
    \/ ProcessFail
    \/ ProcessWrite
    \/ SaveOpen
    \/ SaveDump
    \/ LoopEnd
    \/ Rerun

Next == Steps \/ Kill

Spec == Init /\ [][Next]_vars

\* ------------------------------------------- a remote that repeats itself
\* the answers a fixed remote may give at the successive offsets of one crop
Profiles(c) ==
    {<<>>,
     <<Answer("timeout", <<>>)>>,
     <<Answer("not_object", <<>>)>>,
     <<Answer("ok", BadPage(c))>>,
     <<Answer("ok", GoodPage(c))>>,
     <<Answer("ok", GoodPage(c)), Answer("ok", GoodPage(c))>>,
     <<Answer("ok", GoodPage(c)), Answer("timeout", <<>>),
       Answer("ok", GoodPage(c))>>,
     <<Answer("ok", ShortPage(c)), Answer("ok", GoodPage(c)),
       Answer("not_json", <<>>), Answer("ok", GoodPage(c))>>}

FixedRemotes ==
    {[det |-> TRUE, disc |-> Answer("ok", d), pages |-> ps] :
        d \in FirstPages \ {<<>>},
        ps \in {f \in [Crops -> UNION {Profiles(c) : c \in Crops}] :
                    \A c \in Crops : f[c] \in Profiles(c)}}

FreshDisk == {FileOf("missing", <<>>)}

InitDet == InitWith(FreshDisk, FixedRemotes)

SpecDet == InitDet /\ [][Next]_vars

\* The script run from start to end without interruption, as a function of
\* the disk it starts on, against the fixed remote.
\* fetch_page: the retry loop run to its return or its exception
RECURSIVE FetchAll(_)
FetchAll(c) ==
    IF c.status # "active" THEN c
    ELSE FetchAll(AfterAttempt(c, Fixed(c.filter, c.offset)))

\* process_crop, lines 117-127: the rows of the walk from off on
RECURSIVE WalkAll(_, _, _)
WalkAll(crop, off, acc) ==
    LET c == FetchAll(NewCall(off, crop)) IN
    IF c.status = "raised" THEN [raised |-> TRUE, rows |-> acc]
    ELSE IF c.result = <<>> THEN [raised |-> FALSE, rows |-> acc]
    ELSE WalkAll(crop, off + LIMIT, acc \o c.result)

\* the main loop from position i on: the files it leaves
RECURSIVE LoopAll(_, _, _, _)
LoopAll(list, i, done, fs) ==
    IF i > Len(list) THEN fs
    ELSE IF list[i] \in done THEN LoopAll(list, i + 1, done, fs)
    ELSE LET w == WalkAll(list[i], 0, <<>>) IN
         IF w.raised THEN fs
         ELSE IF Frame(w.rows) = <<>> THEN LoopAll(list, i + 1, done, fs)
         ELSE LoopAll(list, i + 1, done, WriteCsv(fs, list[i], Frame(w.rows)))

RunAll(pf, fs) ==
    LET d == FetchAll(NewCall(0, NoFilter))
        p == load_progress(pf)
    IN IF d.status = "raised" \/ ~p.keyed THEN fs
       ELSE LoopAll(Discovered(d.result), 1, Range(p.completed_crops), fs)

\* ------------------------------------------------------------------- claims
Unusable == {"missing", "empty", "invalid", "other"}

\* C1: fetch_page never raises for a remote-side error; a call that ends
\* after a failed attempt ends only when MAX_RETRIES attempts were made, with
\* an empty result; a call never makes more than MAX_RETRIES requests.
C1_FetchPageNeverRaises ==
    /\ call.status # "raised"
    /\ call.attempt =< MAX_RETRIES
    /\ (call.status = "returned" /\ call.endedBy \in FailureKinds)
           => (call.attempt = MAX_RETRIES /\ call.result = <<>>)

\* C2: a non-200 answer and a 200 answer whose body has not the expected
\* structure (no JSON, JSON that is no object, an object without records) are
\* handled as a timeout is: a call whose last answer was one of them made all
\* MAX_RETRIES attempts, slept after each, and returned the empty sequence.
C2_BadAnswerIsRetried ==
    call.endedBy \in {"http_error", "not_json", "not_object", "no_records"}
        => /\ call.status = "returned"
           /\ call.attempt = MAX_RETRIES
           /\ Len(call.sleeps) = MAX_RETRIES
           /\ call.result = <<>>

\* C3: loading the progress never raises, and a missing, empty, invalid or
\* other-shaped progress file gives the run an empty completed set.
C3_LoadToleratesAnyFile ==
    /\ raised # "KeyError"
    /\ (/\ pc \in {"loop", "walk", "process", "save_open", "finished"}
        /\ saves = <<>>
        /\ progressFile.kind \in Unusable)
           => completed = {}

\* C4: process_crop is never called for a crop that has already reached
\* SUCCEEDED or FAILED, in this run or in an earlier one.
C4_NeverAttemptedAgain ==
    [][(pc = "loop" /\ pc' = "walk")
           => entity[commodities[idx]] = "PENDING"]_vars

\* C5: when the main loop is between two entities or at its end, every
\* entity processed so far in the run was followed by a save_progress, and
\* the entities recorded by those saves are the ones that succeeded.
C5_SavedAfterEveryEntity ==
    pc \in {"loop", "finished"}
        => /\ Range(invoked) \subseteq Range(saves)
           /\ \A c \in Range(saves) : entity[c] = "SUCCEEDED"

\* C6: whatever happened to the earlier processes, the completed set a run
\* loads holds every crop of the list the last completed save_progress wrote.
C6_LoadedHoldsEverySavedCrop ==
    (pc = "loop" /\ invoked = <<>>) => Range(lastSaved) \subseteq completed

\* C7: against a remote that answers every request the same way each time,
\* a run that ends (normally or by its own exception), however many earlier
\* processes were terminated and wherever, leaves the entity files that one
\* uninterrupted run from the fresh disk leaves.
C7_ResumedRunLeavesSameFiles ==
    pc \in {"finished", "aborted"}
        => files = RunAll(FileOf("missing", <<>>), [s \in Stems |-> NoFile])

\* C7 witness: a run resumed from a progress that holds completed crops has
\* processed and saved a further crop and has finished with the same files.
C7_Witness ==
    /\ remote.det
    /\ pc = "finished"
    /\ run > 1
    /\ completed # {}
    /\ saves # <<>>
    /\ files = RunAll(FileOf("missing", <<>>), [s \in Stems |-> NoFile])

\* a ceiling the data of the remote reaches (the script configures none)
OffsetCeiling == MaxPages * LIMIT

\* C8: every page request of process_crop's walk satisfies
\* offset + page size <= the ceiling.
C8_WalkStaysUnderCeiling ==
    (pc = "walk" /\ call.attempt > 0) => call.offset + LIMIT =< OffsetCeiling

\* C9: a process without the credential raises at once: it issues no
\* request and changes nothing on disk.
C9_NoCredentialNoActivity ==
    [][~apiKey => /\ (pc = "boot" => pc' = "aborted")
                  /\ disk' = disk
                  /\ (pc' = pc => call'.attempt = call.attempt)]_vars

\* C10: a fetch of process_crop that fails does not abort the run, and a
\* run that finishes has called process_crop exactly once, in sorted order,
\* for every discovered crop outside the loaded completed set.
C10_FailedFetchDoesNotAbort ==
    /\ (call.filter # NoFilter /\ call.endedBy # "ok") => call.status # "raised"
    /\ pc = "finished"
           => invoked = Sorted(Range(commodities) \ completed)

\* the rows of a batch that pass the date and price checks, stated from the
\* records themselves
Passing(batch) ==
    {r \in Range(batch) : /\ ValidDate(r.Arrival_Date)
                          /\ r.Modal_Price.num
                          /\ r.Modal_Price.val > 0}

\* C11: of every accumulated batch process_crop cleans, each row left by
\* the cleaning and the windowing is a row of the batch with a valid date and
\* a price > 0, dated between the latest date of the rows that passed those
\* checks less three years and that latest date; and no row of an entity
\* file has a price that is not > 0 or a date that is no date.
C11_CleaningMonotonicity ==
    /\ pc = "process" =>
          LET pass == Passing(rows)
              tops == {t \in pass : \A q \in pass :
                          ~DateLess(t.Arrival_Date, q.Arrival_Date)}
          IN \A r \in Range(Windowed(Cleaned(rows))) :
                /\ r \in pass
                /\ \E top \in tops :
                      /\ ~DateLess(r.Arrival_Date,
                                   MinusYears(top.Arrival_Date, WINDOW_YEARS))
                      /\ ~DateLess(top.Arrival_Date, r.Arrival_Date)
    /\ \A s \in Stems : \A i \in 1..Len(files[s].rows) :
          /\ files[s].rows[i].Modal_Price > 0
          /\ ValidDate(files[s].rows[i].Arrival_Date)

\* C11 witness: process_crop holds a batch of which the cleaning dropped rows
\* and the window dropped a further row, and rows are left.
C11_Witness ==
    /\ pc = "process"
    /\ Len(Cleaned(rows)) < Len(rows)
    /\ Len(Windowed(Cleaned(rows))) < Len(Cleaned(rows))
    /\ Windowed(Cleaned(rows)) # <<>>

\* the waits of the claim, in seconds
Waits == <<2, 4, 8, 16, 32>>

\* C12: within one fetch_page call the wait after failed attempt k is
\* BACKOFF_BASE^k seconds, k from 1 (2, 4, 8, 16, 32), strictly increasing,
\* and every failed attempt has had its wait before the next attempt is made:
\* a call about to make an attempt has waited once for each attempt made, and
\* a call that ended waited once for each of its failed attempts.
C12_BackoffGrowth ==
    /\ Len(call.sleeps) =< MAX_RETRIES
    /\ \A k \in 1..Len(call.sleeps) :
          /\ call.sleeps[k] = Waits[k]
          /\ k > 1 => call.sleeps[k] > call.sleeps[k - 1]
    /\ call.status = "active" => Len(call.sleeps) = call.attempt
    /\ (call.status = "returned" /\ call.endedBy \in FailureKinds)
           => Len(call.sleeps) = call.attempt
    /\ (call.status \in {"returned", "raised"} /\ call.endedBy \notin FailureKinds)
           => Len(call.sleeps) = call.attempt - 1

\* C12 witness: a call whose attempts all failed has waited 2, 4, 8, 16, 32.
C12_Witness ==
    /\ call.status = "returned"
    /\ call.attempt = MAX_RETRIES
    /\ call.sleeps = Waits

\* C13: from the call of process_crop to its return of False nothing on disk
\* changes: no step of the walk or of the processing other than the write of
\* a successful crop creates or changes an entity file or the progress file;
\* and no step of the program removes an entity file.
C13_FailedWritesNothing ==
    [][/\ (pc \in {"walk", "process"} /\ pc' # "save_open") => disk' = disk
       /\ \A s \in Stems : files[s].exists => files'[s].exists]_vars

\* C13 witness: a crop of this run has ended FAILED while a file is there
\* at its stem and the progress file holds a list.
C13_Witness ==
    /\ pc = "loop"
    /\ progressFile.kind = "json"
    /\ \E c \in Range(invoked) :
          entity[c] = "FAILED" /\ files[Stem(c)].exists

\* C14: in every state, the crops the current run has added to the persisted
\* list are crops whose save_progress the run made, each of them a crop whose
\* process_crop returned True and whose entity file is on disk with its rows;
\* and when a save_progress is under way the file of its crop is already
\* written.
C14_RecordedOnlyAfterWrite ==
    /\ (/\ pc \in {"loop", "walk", "process", "save_open", "finished"}
        /\ progressFile.kind = "json")
           => Range(progressFile.crops) \ completed \subseteq Range(saves)
    /\ \A c \in Range(saves) :
          /\ entity[c] = "SUCCEEDED"
          /\ files[Stem(c)].exists
          /\ files[Stem(c)].rows # <<>>
    /\ pc \in {"save_open", "save_dump"}
           => /\ entity[commodities[idx]] = "SUCCEEDED"
              /\ files[Stem(commodities[idx])].exists
              /\ files[Stem(commodities[idx])].rows # <<>>

\* C14 witness: a process that had recorded a crop was terminated after it
\* wrote the file of a further crop and before it recorded that crop.
C14_Witness ==
    /\ pc = "killed"
    /\ saves # <<>>
    /\ progressFile.kind = "json"
    /\ Range(saves) \subseteq Range(progressFile.crops)
    /\ \E c \in Crops :
          /\ \A d \in Range(progressFile.crops) : Stem(d) # Stem(c)
          /\ entity[c] = "SUCCEEDED"
          /\ files[Stem(c)].rows # <<>>

\* the Commodity values of the records of a page
ValuesOf(page) == {page[i].Commodity : i \in 1..Len(page)}

\* an unfiltered call is only the call at offset 0 the start of a run makes
OneUnfilteredCall ==
    /\ (call'.status = "active" /\ call'.filter = NoFilter)
           => /\ call'.offset = 0
              /\ pc' = "discover"
              /\ pc \in {"boot", "discover"}
    /\ pc' = "discover" => (pc \in {"boot", "discover"} /\ run' = run)
    /\ (pc = "boot" /\ pc' = "discover") => call' = NewCall(0, NoFilter)

\* the list of the run holds no crop twice, and process_crop is called for
\* crops of the list only
OnlyDiscoveredProcessed ==
    /\ \A i, j \in 1..Len(commodities') :
          commodities'[i] = commodities'[j] => i = j
    /\ Range(invoked') \subseteq Range(commodities') \/ pc' = "killed"
    /\ (pc = "loop" /\ pc' = "walk") => call'.filter \in Range(commodities)

\* C15 as stated: discovery makes one unfiltered call at offset 0 per run,
\* the list of the run holds exactly the distinct Commodity values of that
\* page that are not null, each once, and no other crop is processed.
C15_DistinctNonNullValues ==
    [][/\ OneUnfilteredCall
       /\ OnlyDiscoveredProcessed
       /\ (pc = "discover" /\ pc' = "load")
              => Range(commodities') = ValuesOf(call.result) \ {Null}]_vars

\* C15 amended: ... the list of the run holds exactly the distinct Commodity
\* values of that page that are neither null nor the empty string, each once,
\* and no other crop is processed.
C15_DistinctNonEmptyValues ==
    [][/\ OneUnfilteredCall
       /\ OnlyDiscoveredProcessed
       /\ (pc = "discover" /\ pc' = "load")
              => Range(commodities') = ValuesOf(call.result) \ {Null, NoText}]_vars

\* C15 witness: the run has listed the crops of a page that also holds a
\* null and an empty Commodity, and has called process_crop for one of them.
C15_Witness ==
    /\ pc = "walk"
    /\ Len(commodities) = Cardinality(Crops)
    /\ invoked # <<>>

\* the position, in the answers of the fixed remote for a crop, of the first
\* answer that is a failure, when it comes after non-empty pages only; else 0
CutAt(c) ==
    LET p == remote.pages[c]
        bad == {j \in 1..Len(p) : p[j].kind \in FailureKinds}
    IN IF bad = {} THEN 0
       ELSE LET j == CHOOSE x \in bad : \A y \in bad : x =< y
            IN IF j > 1 /\ \A i \in 1..(j - 1) :
                              p[i].kind = "ok" /\ p[i].records # <<>>
               THEN j ELSE 0

\* the rows of the pages before position j
RECURSIVE Before(_, _)
Before(c, j) ==
    IF j =< 1 THEN <<>>
    ELSE Before(c, j - 1) \o remote.pages[c][j - 1].records

\* C16: when the pages of a crop at the offsets 0..k-LIMIT are non-empty and
\* every request at offset k > 0 fails, no request for the crop goes beyond
\* offset k, process_crop cleans the rows of the pages before k alone, the
\* file it writes is the frame of those rows, the crop is in the persisted
\* list once the main loop has passed it, and a run that loaded it as
\* completed makes no request for it.
C16_ExhaustionEndsTheWalk ==
    \A c \in Crops :
        LET j == CutAt(c)
            k == (j - 1) * LIMIT
            cur == pc \in {"walk", "process", "save_open", "save_dump"}
                       /\ commodities[idx] = c
        IN (remote.det /\ j > 1) =>
              /\ (call.status # "idle" /\ call.filter = c) => call.offset =< k
              /\ (cur /\ pc = "process")
                     => (rows = Before(c, j) /\ offset = k)
              /\ (cur /\ pc \in {"save_open", "save_dump"})
                     => files[Stem(c)].rows = Frame(Before(c, j))
              /\ (pc \in {"loop", "finished"} /\ c \in Range(invoked))
                     => /\ c \in Range(saves)
                        /\ progressFile.kind = "json"
                        /\ c \in Range(progressFile.crops)
              /\ c \in completed
                     => (c \notin Range(invoked) /\ call.filter # c)

\* C16 witness: a run that loaded such a crop as completed has finished, and
\* the file of the crop holds the frame of the pages before k.
C16_Witness ==
    \E c \in Crops :
        /\ remote.det
        /\ CutAt(c) > 1
        /\ pc = "finished"
        /\ c \in completed
        /\ files[Stem(c)].rows = Frame(Before(c, CutAt(c)))
        /\ \A d \in Crops \ {c} : Stem(d) # Stem(c)

\* C17: for every crop of the completed set the run loaded, no step of the
\* run makes a filtered request for it or changes the entity file at its
\* stem; and the list every save_progress of the run writes is the loaded
\* list followed by the crops saved in this run, which succeeded in this run,
\* were not in the loaded list and are each there once.
C17_CompletedLeftAlone ==
    [][/\ \A c \in completed :
             /\ call'.filter # c
             /\ files'[Stem(c)] = files[Stem(c)]
       /\ (pc = "save_dump" /\ pc' = "loop") =>
             LET list == progressFile'.crops
                 base == SubSeq(list, 1, Len(list) - Len(saves'))
             IN /\ list = base \o saves'
                /\ Range(base) = completed
                /\ Range(saves') \cap completed = {}
                /\ \A c \in Range(saves') : entity'[c] = "SUCCEEDED"
                /\ \A i, j \in 1..Len(saves') :
                       saves'[i] = saves'[j] => i = j]_vars

\* C18: when a run has ended, the entity file at the stem of every crop the
\* run recorded as completed holds the rows of that crop's own process_crop
\* call, also when another discovered name has the same stem.
C18_FileHoldsOwnRows ==
    pc = "finished" =>
        \A c \in Range(saves) :
            /\ files[Stem(c)].rows # <<>>
            /\ \A i \in 1..Len(files[Stem(c)].rows) :
                   files[Stem(c)].rows[i].Commodity = c

\* C19: a run whose discovery returned the empty sequence goes from the load
\* of the progress to its end without raising, and none of its steps makes a
\* request, calls process_crop or save_progress, or changes the disk.
C19_EmptyDiscoveryEndsQuietly ==
    [][(pc \in {"load", "loop"} /\ commodities = <<>>)
           => /\ pc' \in {"loop", "finished", "killed"}
              /\ raised' = raised
              /\ disk' = disk
              /\ call'.status = "idle"
              /\ invoked' = <<>>
              /\ saves' = <<>>]_vars

====
